---- MODULE Spec2Model ----
(***************************************************************************)
(* TalentScout hiring assistant: the conversation stage machine of         *)
(* app.py / conversation_manager.py and the field validators of            *)
(* validators.py.                                                          *)
(*                                                                         *)
(* A Python str is a sequence of one-character strings.  Fixed message     *)
(* texts (validator reasons, generated replies) are sequences holding one  *)
(* multi-character token, so every text is a sequence of strings.          *)
(***************************************************************************)
EXTENDS Integers, Sequences, FiniteSets, TLC

(***************************************************************************)
(* Bounds of the model.                                                    *)
(***************************************************************************)
\* number of submissions a session takes before only reset is left
MaxExchanges == 12
\* length of the strings the validators are called with, over Alphabet
MaxLen == 4

(***************************************************************************)
(* Python str primitives, as the validators and the manager use them.      *)
(***************************************************************************)
None == <<"<None>">>

Range(s) == {s[i] : i \in 1..Len(s)}

LowerChars ==
  <<"a","b","c","d","e","f","g","h","i","j","k","l","m",
    "n","o","p","q","r","s","t","u","v","w","x","y","z">>

UpperChars ==
  <<"A","B","C","D","E","F","G","H","I","J","K","L","M",
    "N","O","P","Q","R","S","T","U","V","W","X","Y","Z">>

DigitChars == <<"0","1","2","3","4","5","6","7","8","9">>

WhitespaceChars == {" ", "\t", "\n"}

IsSpace(c) == c \in WhitespaceChars
IsLowerChar(c) == c \in Range(LowerChars)
IsUpperChar(c) == c \in Range(UpperChars)
IsLetter(c) == IsLowerChar(c) \/ IsUpperChar(c)
IsDigit(c) == c \in Range(DigitChars)

IndexIn(c, chars) == CHOOSE i \in 1..Len(chars) : chars[i] = c

lower_char(c) == IF IsUpperChar(c) THEN LowerChars[IndexIn(c, UpperChars)] ELSE c
upper_char(c) == IF IsLowerChar(c) THEN UpperChars[IndexIn(c, LowerChars)] ELSE c

\* str.lower()
lower(s) == [i \in 1..Len(s) |-> lower_char(s[i])]

RECURSIVE lstrip(_)
lstrip(s) == IF s = <<>> THEN s
             ELSE IF IsSpace(Head(s)) THEN lstrip(Tail(s)) ELSE s

RECURSIVE rstrip(_)
rstrip(s) == IF s = <<>> THEN s
             ELSE IF IsSpace(s[Len(s)]) THEN rstrip(SubSeq(s, 1, Len(s) - 1)) ELSE s

\* str.strip()
strip(s) == rstrip(lstrip(s))

\* `k in s` for strings
contains(s, k) ==
  \E i \in 1..(Len(s) - Len(k) + 1) : SubSeq(s, i, i + Len(k) - 1) = k

startswith(s, k) == Len(s) >= Len(k) /\ SubSeq(s, 1, Len(k)) = k

\* length of the longest prefix of s made of characters satisfying IsSpace
RECURSIVE SpaceRun(_)
SpaceRun(s) == IF s = <<>> \/ ~IsSpace(Head(s)) THEN 0 ELSE 1 + SpaceRun(Tail(s))

\* length of the longest prefix of s made of digits
RECURSIVE DigitRun(_)
DigitRun(s) == IF s = <<>> \/ ~IsDigit(Head(s)) THEN 0 ELSE 1 + DigitRun(Tail(s))

\* length of the longest prefix of s holding no whitespace
RECURSIVE WordRun(_)
WordRun(s) == IF s = <<>> \/ IsSpace(Head(s)) THEN 0 ELSE 1 + WordRun(Tail(s))

Drop(s, n) == SubSeq(s, n + 1, Len(s))

\* str.split() with no argument: the whitespace-separated words
RECURSIVE split(_)
split(s) ==
  LET t == lstrip(s) IN
    IF t = <<>> THEN <<>>
    ELSE <<SubSeq(t, 1, WordRun(t))>> \o split(Drop(t, WordRun(t)))

\* position of the first sep in s, or 0
RECURSIVE find(_, _)
find(s, sep) ==
  IF s = <<>> THEN 0
  ELSE IF Head(s) = sep THEN 1
  ELSE LET r == find(Tail(s), sep) IN IF r = 0 THEN 0 ELSE r + 1

\* str.split(sep) for a one-character sep: keeps empty pieces
RECURSIVE split_on(_, _)
split_on(s, sep) ==
  LET p == find(s, sep) IN
    IF p = 0 THEN <<s>>
    ELSE <<SubSeq(s, 1, p - 1)>> \o split_on(Drop(s, p), sep)

\* sep.join(parts)
RECURSIVE join(_, _)
join(sep, parts) ==
  IF parts = <<>> THEN <<>>
  ELSE IF Len(parts) = 1 THEN parts[1]
  ELSE parts[1] \o sep \o join(sep, Tail(parts))

\* str.title(): a letter is upper-cased unless the character before it is a letter
title(s) ==
  [i \in 1..Len(s) |->
     IF i > 1 /\ IsLetter(s[i - 1]) THEN lower_char(s[i]) ELSE upper_char(s[i])]

\* int(digits) for a non-empty digit string
RECURSIVE int(_)
int(d) ==
  IF d = <<>> THEN 0
  ELSE 10 * int(SubSeq(d, 1, Len(d) - 1)) + (IndexIn(d[Len(d)], DigitChars) - 1)

\* str(n) for n >= 0
RECURSIVE str(_)
str(n) ==
  IF n < 10 THEN <<DigitChars[n + 1]>>
  ELSE str(n \div 10) \o <<DigitChars[(n % 10) + 1]>>

(***************************************************************************)
(* Validator (utils/validators.py).  Each validator returns the pair       *)
(* (is_valid, result): result is the normalized value when is_valid and    *)
(* the rejection reason otherwise.                                         *)
(***************************************************************************)
Accept(value) == [is_valid |-> TRUE, result |-> value]
Reject(reason) == [is_valid |-> FALSE, result |-> <<reason>>]

\* re.match(r"^[a-zA-Z\s\.\-\']+$", name)
NamePattern(name) ==
  /\ name # <<>>
  /\ \A i \in 1..Len(name) :
        IsLetter(name[i]) \/ IsSpace(name[i]) \/ name[i] \in {".", "-", "'"}

validate_name(name) ==
  IF name = <<>> THEN Reject("Name cannot be empty.")
  ELSE LET n == strip(name) IN
    IF Len(n) < 2 THEN Reject("Name must be at least 2 characters long.")
    ELSE IF ~NamePattern(n)
      THEN Reject("Name can only contain letters, spaces, periods, hyphens, and apostrophes.")
    ELSE Accept(title(join(<<" ">>, split(n))))

\* email_validator.validate_email(email, check_deliverability=False), reduced
\* to its grammar on ASCII input: one "@", a dot-atom local part, a domain of
\* at least two non-empty letter/digit/hyphen labels.
EmailLocalOk(local) ==
  /\ local # <<>>
  /\ \A i \in 1..Len(local) :
        IsLetter(local[i]) \/ IsDigit(local[i]) \/ local[i] \in {".", "-", "_", "+"}
  /\ local[1] # "." /\ local[Len(local)] # "."
  /\ ~contains(local, <<".", ".">>)

EmailDomainOk(domain) ==
  LET labels == split_on(domain, ".") IN
    /\ Len(labels) >= 2
    /\ \A j \in 1..Len(labels) :
          /\ labels[j] # <<>>
          /\ \A i \in 1..Len(labels[j]) :
                IsLetter(labels[j][i]) \/ IsDigit(labels[j][i]) \/ labels[j][i] = "-"
          /\ labels[j][1] # "-" /\ labels[j][Len(labels[j])] # "-"

validate_email(email) ==
  IF email = <<>> THEN Reject("Email cannot be empty.")
  ELSE LET e == strip(email)
           parts == split_on(e, "@") IN
    IF Len(parts) = 2 /\ EmailLocalOk(parts[1]) /\ EmailDomainOk(parts[2])
      THEN Accept(parts[1] \o <<"@">> \o lower(parts[2]))
      ELSE Reject("Invalid email format")

\* phonenumbers.parse(phone, None) / is_valid_number / format_number
\* (INTERNATIONAL), reduced to the +1 numbering plan: a leading "+", country
\* code 1 and a ten-digit national number NXX NXX XXXX.
PhoneSeparators == {" ", "-", "(", ")", "."}

RECURSIVE digits_of(_)
digits_of(s) ==
  IF s = <<>> THEN <<>>
  ELSE IF IsDigit(Head(s)) THEN <<Head(s)>> \o digits_of(Tail(s))
  ELSE digits_of(Tail(s))

PhoneParses(p) ==
  /\ Len(p) >= 2
  /\ p[1] = "+"
  /\ \A i \in 2..Len(p) : IsDigit(p[i]) \/ p[i] \in PhoneSeparators
  /\ Len(digits_of(p)) >= 2

PhoneIsValidNumber(d) ==
  /\ Len(d) = 11
  /\ d[1] = "1"
  /\ d[2] \notin {"0", "1"}
  /\ d[5] \notin {"0", "1"}

validate_phone(phone) ==
  IF phone = <<>> THEN Reject("Phone number cannot be empty.")
  ELSE LET p == strip(phone)
           d == digits_of(p) IN
    IF ~PhoneParses(p) THEN Reject("Invalid phone number format.")
    ELSE IF ~PhoneIsValidNumber(d) THEN Reject("Invalid phone number.")
    ELSE Accept(<<"+", "1", " ">> \o SubSeq(d, 2, 4) \o <<"-">>
                  \o SubSeq(d, 5, 7) \o <<"-">> \o SubSeq(d, 8, 11))

\* length of the alternative of (years?|yrs?|year|yr) matched at the start of s, or 0
YearWordLen(s) ==
  IF startswith(s, <<"y","e","a","r">>)
    THEN (IF startswith(s, <<"y","e","a","r","s">>) THEN 5 ELSE 4)
  ELSE IF startswith(s, <<"y","r">>)
    THEN (IF startswith(s, <<"y","r","s">>) THEN 3 ELSE 2)
  ELSE 0

\* re.sub(r'\s*(years?|yrs?|year|yr)\s*', '', experience)
RECURSIVE remove_year_words(_)
remove_year_words(s) ==
  IF s = <<>> THEN <<>>
  ELSE LET rest == Drop(s, SpaceRun(s))
           w == YearWordLen(rest) IN
    IF w > 0
      THEN LET after == Drop(rest, w) IN remove_year_words(Drop(after, SpaceRun(after)))
      ELSE <<Head(s)>> \o remove_year_words(Tail(s))

\* re.findall(r'\d+', experience)[0], or the empty string when there is no digit
RECURSIVE first_number(_)
first_number(s) ==
  IF s = <<>> THEN <<>>
  ELSE IF IsDigit(Head(s)) THEN SubSeq(s, 1, DigitRun(s))
  ELSE first_number(Tail(s))

\* the word_to_num dict, in insertion order
word_to_num ==
  <<[word |-> <<"z","e","r","o">>, num |-> 0],
    [word |-> <<"o","n","e">>, num |-> 1],
    [word |-> <<"t","w","o">>, num |-> 2],
    [word |-> <<"t","h","r","e","e">>, num |-> 3],
    [word |-> <<"f","o","u","r">>, num |-> 4],
    [word |-> <<"f","i","v","e">>, num |-> 5],
    [word |-> <<"s","i","x">>, num |-> 6],
    [word |-> <<"s","e","v","e","n">>, num |-> 7],
    [word |-> <<"e","i","g","h","t">>, num |-> 8],
    [word |-> <<"n","i","n","e">>, num |-> 9],
    [word |-> <<"t","e","n">>, num |-> 10],
    [word |-> <<"e","l","e","v","e","n">>, num |-> 11],
    [word |-> <<"t","w","e","l","v","e">>, num |-> 12],
    [word |-> <<"t","h","i","r","t","e","e","n">>, num |-> 13],
    [word |-> <<"f","o","u","r","t","e","e","n">>, num |-> 14],
    [word |-> <<"f","i","f","t","e","e","n">>, num |-> 15],
    [word |-> <<"t","w","e","n","t","y">>, num |-> 20],
    [word |-> <<"t","h","i","r","t","y">>, num |-> 30]>>

\* the for/else loop over word_to_num.items(): index of the first word found, or 0
first_word(experience) ==
  IF \E i \in 1..Len(word_to_num) : contains(experience, word_to_num[i].word)
    THEN CHOOSE i \in 1..Len(word_to_num) :
           /\ contains(experience, word_to_num[i].word)
           /\ \A j \in 1..(i - 1) : ~contains(experience, word_to_num[j].word)
    ELSE 0

MaxYears == 50

\* validate_experience without the upper end of the range check
validate_experience_NoUpperBound(experience) ==
  IF experience = <<>> THEN Reject("Experience cannot be empty.")
  ELSE LET e == remove_year_words(lower(strip(experience)))
           numbers == first_number(e) IN
    IF numbers = <<>> /\ first_word(e) = 0
      THEN Reject("Please provide a valid number of years (0-50).")
    ELSE LET years == IF numbers = <<>> THEN word_to_num[first_word(e)].num
                      ELSE int(numbers) IN
      IF years < 0
        THEN Reject("Experience must be between 0 and 50 years.")
        ELSE Accept(str(years))

validate_experience(experience) ==
  IF experience = <<>> THEN Reject("Experience cannot be empty.")
  ELSE LET e == remove_year_words(lower(strip(experience)))
           numbers == first_number(e) IN
    IF numbers = <<>> /\ first_word(e) = 0
      THEN Reject("Please provide a valid number of years (0-50).")
    ELSE LET years == IF numbers = <<>> THEN word_to_num[first_word(e)].num
                      ELSE int(numbers) IN
      IF years < 0 \/ years > MaxYears
        THEN Reject("Experience must be between 0 and 50 years.")
        ELSE Accept(str(years))

\* validate_position measuring the input as given, without strip()
validate_position_NoStrip(position) ==
  IF position = <<>> THEN Reject("Position cannot be empty.")
  ELSE IF Len(position) < 3 THEN Reject("Position must be at least 3 characters long.")
  ELSE Accept(join(<<" ">>, split(position)))

validate_position(position) ==
  IF position = <<>> THEN Reject("Position cannot be empty.")
  ELSE LET p == strip(position) IN
    IF Len(p) < 3 THEN Reject("Position must be at least 3 characters long.")
    ELSE Accept(join(<<" ">>, split(p)))

validate_location(location) ==
  IF location = <<>> THEN Reject("Location cannot be empty.")
  ELSE LET l == strip(location) IN
    IF Len(l) < 2 THEN Reject("Location must be at least 2 characters long.")
    ELSE Accept(join(<<" ">>, split(l)))

\* [f(x) for x in parts if x.strip()] with f = strip
RECURSIVE strip_nonempty(_)
strip_nonempty(parts) ==
  IF parts = <<>> THEN <<>>
  ELSE IF strip(Head(parts)) # <<>>
    THEN <<strip(Head(parts))>> \o strip_nonempty(Tail(parts))
    ELSE strip_nonempty(Tail(parts))

validate_tech_stack(tech_stack) ==
  IF tech_stack = <<>> THEN Reject("Tech stack cannot be empty.")
  ELSE LET t == strip(tech_stack) IN
    IF Len(t) < 2 THEN Reject("Tech stack must be at least 2 characters long.")
    ELSE Accept(join(<<",", " ">>, strip_nonempty(split_on(t, ","))))

(***************************************************************************)
(* config/settings.py                                                      *)
(***************************************************************************)
GREETING == "greeting"
COLLECT_NAME == "collect_name"
COLLECT_EMAIL == "collect_email"
COLLECT_PHONE == "collect_phone"
COLLECT_EXPERIENCE == "collect_experience"
COLLECT_POSITION == "collect_position"
COLLECT_LOCATION == "collect_location"
COLLECT_TECH_STACK == "collect_tech_stack"
TECHNICAL_QUESTIONS == "technical_questions"
CONCLUSION == "conclusion"
ENDED == "ended"

EXIT_KEYWORDS ==
  <<<<"e","x","i","t">>,
    <<"q","u","i","t">>,
    <<"b","y","e">>,
    <<"g","o","o","d","b","y","e">>,
    <<"s","t","o","p">>,
    <<"e","n","d">>,
    <<"c","a","n","c","e","l">>,
    <<"t","e","r","m","i","n","a","t","e">>>>

STAGE_SEQUENCE ==
  <<GREETING, COLLECT_NAME, COLLECT_EMAIL, COLLECT_PHONE, COLLECT_EXPERIENCE,
    COLLECT_POSITION, COLLECT_LOCATION, COLLECT_TECH_STACK, TECHNICAL_QUESTIONS,
    CONCLUSION, ENDED>>

\* get_min_questions() / get_max_questions() under the default configuration
MIN_QUESTIONS == 3
MAX_QUESTIONS == 5

(***************************************************************************)
(* ConversationManager (utils/conversation_manager.py).  The manager is    *)
(* the record cm; each method is an operator from the manager before the   *)
(* call to the manager after it.                                           *)
(***************************************************************************)
Fields == {"name", "email", "phone", "experience", "position", "location", "tech_stack"}

\* ConversationManager.__init__
NewManager ==
  [stage |-> GREETING,
   candidate_info |-> [f \in Fields |-> None],
   tech_questions_asked |-> 0,
   tech_questions_answers |-> <<>>,
   conversation_history |-> <<>>,
   total_questions_to_ask |-> 0,
   tech_stack_list |-> <<>>]

\* the truth value Python gives an Optional[str]
Truthy(v) == v # None /\ v # <<>>

\* datetime.now().isoformat(), counted in messages since the manager was built
Now(c) == Len(c.conversation_history) + 1

\* add_message inserting the entry at the front of the log
add_message_Prepends(c, role, content) ==
  [c EXCEPT !.conversation_history =
     <<[role |-> role, content |-> content, timestamp |-> Now(c)]>> \o @]

add_message(c, role, content) ==
  [c EXCEPT !.conversation_history =
     Append(@, [role |-> role, content |-> content, timestamp |-> Now(c)])]

StageIndex(stage) == CHOOSE i \in 1..Len(STAGE_SEQUENCE) : STAGE_SEQUENCE[i] = stage

\* get_next_stage taking the entry after the next one
get_next_stage_SkipsOne(c) ==
  IF c.stage \notin Range(STAGE_SEQUENCE) THEN ENDED
  ELSE IF StageIndex(c.stage) + 1 < Len(STAGE_SEQUENCE)
    THEN STAGE_SEQUENCE[StageIndex(c.stage) + 2]
    ELSE ENDED

get_next_stage(c) ==
  IF c.stage \notin Range(STAGE_SEQUENCE) THEN ENDED
  ELSE IF StageIndex(c.stage) < Len(STAGE_SEQUENCE)
    THEN STAGE_SEQUENCE[StageIndex(c.stage) + 1]
    ELSE ENDED

\* split(",") and strip of every piece
strip_each(parts) == [i \in 1..Len(parts) |-> strip(parts[i])]

\* drawn is the value random.randint(min_q, max_q) returns
_prepare_technical_questions(c, drawn) ==
  IF ~Truthy(c.candidate_info["tech_stack"]) THEN c
  ELSE [c EXCEPT !.tech_stack_list = strip_each(split_on(c.candidate_info["tech_stack"], ",")),
                 !.total_questions_to_ask = drawn,
                 !.tech_questions_asked = 0,
                 !.tech_questions_answers = <<>>]

\* move_to_next_stage preparing the loop on every move
move_to_next_stage_AlwaysPrepares(c, drawn) ==
  _prepare_technical_questions([c EXCEPT !.stage = get_next_stage(c)], drawn)

move_to_next_stage(c, drawn) ==
  LET c1 == [c EXCEPT !.stage = get_next_stage(c)] IN
    IF c1.stage = TECHNICAL_QUESTIONS
      THEN _prepare_technical_questions(c1, drawn)
      ELSE c1

update_candidate_info(c, field, value) ==
  IF field \in DOMAIN c.candidate_info
    THEN [c EXCEPT !.candidate_info[field] = value]
    ELSE c

is_info_complete(c) == \A f \in Fields : Truthy(c.candidate_info[f])

\* check_exit_keyword comparing the whole message with each keyword
check_exit_keyword_WholeMessage(message) ==
  LET message_lower == strip(lower(message)) IN
    \E i \in 1..Len(EXIT_KEYWORDS) : message_lower = EXIT_KEYWORDS[i]

\* check_exit_keyword looking for the keyword at the start of the message only
check_exit_keyword_PrefixOnly(message) ==
  LET message_lower == strip(lower(message)) IN
    \E i \in 1..Len(EXIT_KEYWORDS) : startswith(message_lower, EXIT_KEYWORDS[i])

check_exit_keyword(message) ==
  LET message_lower == strip(lower(message)) IN
    \E i \in 1..Len(EXIT_KEYWORDS) : contains(message_lower, EXIT_KEYWORDS[i])

\* add_technical_question_answer without the increment of the counter
add_technical_question_answer_NoCount(c, question, answer) ==
  [c EXCEPT !.tech_questions_answers = Append(@, <<question, answer>>)]

add_technical_question_answer(c, question, answer) ==
  [c EXCEPT !.tech_questions_answers = Append(@, <<question, answer>>),
            !.tech_questions_asked = @ + 1]

has_more_technical_questions(c) == c.tech_questions_asked < c.total_questions_to_ask

get_current_question_number(c) == c.tech_questions_asked + 1

\* reset rebuilding everything but the candidate record
reset_KeepsRecord(c) == [NewManager EXCEPT !.candidate_info = c.candidate_info]

reset(c) == NewManager

\* get_progress looking the stage up in the sequence without ENDED, so that
\* ENDED takes the ValueError fallback
get_progress_EndedNotFound(c) ==
  IF c.stage \in Range(STAGE_SEQUENCE) /\ c.stage # ENDED
    THEN <<StageIndex(c.stage) - 1, Len(STAGE_SEQUENCE) - 1>>
    ELSE <<0, Len(STAGE_SEQUENCE) - 1>>

\* get_progress with the one-based position of the stage
get_progress_OneBased(c) ==
  IF c.stage \in Range(STAGE_SEQUENCE)
    THEN <<StageIndex(c.stage), Len(STAGE_SEQUENCE) - 1>>
    ELSE <<0, Len(STAGE_SEQUENCE) - 1>>

\* (current_step, total_steps), current_step zero-based
get_progress(c) ==
  IF c.stage \in Range(STAGE_SEQUENCE)
    THEN <<StageIndex(c.stage) - 1, Len(STAGE_SEQUENCE) - 1>>
    ELSE <<0, Len(STAGE_SEQUENCE) - 1>>

(***************************************************************************)
(* app.py: the Streamlit session.  st.session_state holds the manager cm,  *)
(* the displayed transcript messages, the flag initialized and the pending *)
(* technical question current_question.                                    *)
(***************************************************************************)
VARIABLES cm, messages, initialized, current_question

\* A direct call of one field validator: the validator called ("none" before
\* the call), the string it is called with and the pair it returned.
VARIABLES validator, argument, outcome

call == <<validator, argument, outcome>>

NoOutcome == [is_valid |-> FALSE, result |-> None]

vars == <<cm, messages, initialized, current_question>>

\* texts the generation service returns for a greeting, a collection prompt,
\* a conclusion or an exit message
Replies == {<<"generated text">>}

\* texts the generation service returns for a technical question:
\* generate_response strips its result, so the empty text is one of them
Questions == {<<>>, <<"generated question">>}

\* what the user types while the session is in the given stage
InputsAt(stage) ==
  CASE stage = GREETING -> {<<"h","i">>, <<"b","y","e">>}
    [] stage = COLLECT_NAME -> {<<"a","l"," "," ","o","'","b">>, <<" ">>, <<"b","y","e">>, <<"b","r","e","n","d","a">>}
    [] stage = COLLECT_EMAIL -> {<<"a","@","B",".","c","o">>, <<"a",".","b">>, <<"q","u","i","t","@","b",".","c","o">>}
    [] stage = COLLECT_PHONE -> {<<"+","1"," ","2","3","4"," ","5","6","7"," ","8","9","0","0">>, <<"1","2","3","4","5","6","7">>, <<"a","c","t","u","a","l","l","y",","," ","b","y","e">>}
    [] stage = COLLECT_EXPERIENCE -> {<<"3"," ","Y","e","a","r","s">>, <<"7","5">>, <<"s","t","o","p">>}
    [] stage = COLLECT_POSITION -> {<<"m","l"," "," ","e","n","g">>, <<"q","a">>, <<"b","a","c","k","e","n","d">>}
    [] stage = COLLECT_LOCATION -> {<<"n","y">>, <<"x">>, <<"e","x","i","t">>}
    [] stage = COLLECT_TECH_STACK -> {<<"p","y"," ",",","g","o">>, <<",",",">>, <<"x">>, <<"f","r","o","n","t","e","n","d">>}
    [] stage = TECHNICAL_QUESTIONS -> {<<"o","k">>, <<" ">>, <<"c","a","n","c","e","l">>}
    [] stage = CONCLUSION -> {<<"t","h","x">>, <<"g","o","o","d","b","y","e">>}
    [] stage = ENDED -> {<<"h","i">>}
    [] OTHER -> {}

AllInputs == UNION {InputsAt(STAGE_SEQUENCE[i]) : i \in 1..Len(STAGE_SEQUENCE)}

CollectionStages ==
  {COLLECT_NAME, COLLECT_EMAIL, COLLECT_PHONE, COLLECT_EXPERIENCE,
   COLLECT_POSITION, COLLECT_LOCATION, COLLECT_TECH_STACK}

\* (is_valid, processed_value, error_message)
Checked(v) ==
  [is_valid |-> v.is_valid,
   processed_value |-> v.result,
   error_msg |-> IF v.is_valid THEN <<>> ELSE v.result]

validate_and_process_input(stage, user_input) ==
  IF stage = COLLECT_NAME THEN Checked(validate_name(user_input))
  ELSE IF stage = COLLECT_EMAIL THEN Checked(validate_email(user_input))
  ELSE IF stage = COLLECT_PHONE THEN Checked(validate_phone(user_input))
  ELSE IF stage = COLLECT_EXPERIENCE THEN Checked(validate_experience(user_input))
  ELSE IF stage = COLLECT_POSITION THEN Checked(validate_position(user_input))
  ELSE IF stage = COLLECT_LOCATION THEN Checked(validate_location(user_input))
  ELSE IF stage = COLLECT_TECH_STACK THEN Checked(validate_tech_stack(user_input))
  ELSE IF stage = TECHNICAL_QUESTIONS
    THEN (IF strip(user_input) # <<>>
            THEN [is_valid |-> TRUE, processed_value |-> strip(user_input), error_msg |-> <<>>]
            ELSE [is_valid |-> FALSE, processed_value |-> <<>>,
                  error_msg |-> <<"Please provide an answer to the question.">>])
  ELSE [is_valid |-> TRUE, processed_value |-> user_input, error_msg |-> <<>>]

\* get_field_name_for_stage with collect_email mapped to the name field
get_field_name_for_stage_EmailAsName(stage) ==
  CASE stage = COLLECT_NAME -> "name"
    [] stage = COLLECT_EMAIL -> "name"
    [] stage = COLLECT_PHONE -> "phone"
    [] stage = COLLECT_EXPERIENCE -> "experience"
    [] stage = COLLECT_POSITION -> "position"
    [] stage = COLLECT_LOCATION -> "location"
    [] stage = COLLECT_TECH_STACK -> "tech_stack"
    [] OTHER -> ""

\* get_field_name_for_stage mapping every other stage to "name"
get_field_name_for_stage_DefaultsToName(stage) ==
  CASE stage = COLLECT_NAME -> "name"
    [] stage = COLLECT_EMAIL -> "email"
    [] stage = COLLECT_PHONE -> "phone"
    [] stage = COLLECT_EXPERIENCE -> "experience"
    [] stage = COLLECT_POSITION -> "position"
    [] stage = COLLECT_LOCATION -> "location"
    [] stage = COLLECT_TECH_STACK -> "tech_stack"
    [] OTHER -> "name"

\* get_field_name_for_stage with the greeting stage mapped to "name"
get_field_name_for_stage_GreetingAsName(stage) ==
  CASE stage = GREETING -> "name"
    [] stage = COLLECT_NAME -> "name"
    [] stage = COLLECT_EMAIL -> "email"
    [] stage = COLLECT_PHONE -> "phone"
    [] stage = COLLECT_EXPERIENCE -> "experience"
    [] stage = COLLECT_POSITION -> "position"
    [] stage = COLLECT_LOCATION -> "location"
    [] stage = COLLECT_TECH_STACK -> "tech_stack"
    [] OTHER -> ""

\* "" when the stage collects no field
get_field_name_for_stage(stage) ==
  CASE stage = COLLECT_NAME -> "name"
    [] stage = COLLECT_EMAIL -> "email"
    [] stage = COLLECT_PHONE -> "phone"
    [] stage = COLLECT_EXPERIENCE -> "experience"
    [] stage = COLLECT_POSITION -> "position"
    [] stage = COLLECT_LOCATION -> "location"
    [] stage = COLLECT_TECH_STACK -> "tech_stack"
    [] OTHER -> ""

\* the two st.session_state.messages.append calls every branch ends with: the
\* user's text and the assistant's text, stamped from the last two entries of
\* the manager's history
\* ShowExchange stamping both entries with the time of the last log entry
ShowExchange_SameStamp(c, user_input, text) ==
  LET h == c.conversation_history IN
    messages \o
      <<[role |-> "user", content |-> user_input, timestamp |-> h[Len(h)].timestamp],
        [role |-> "assistant", content |-> text, timestamp |-> h[Len(h)].timestamp]>>

ShowExchange(c, user_input, text) ==
  LET h == c.conversation_history IN
    messages \o
      <<[role |-> "user", content |-> user_input, timestamp |-> h[Len(h) - 1].timestamp],
        [role |-> "assistant", content |-> text, timestamp |-> h[Len(h)].timestamp]>>

Init ==
  /\ cm = NewManager
  /\ messages = <<>>
  /\ initialized = FALSE
  /\ current_question = None
  /\ validator = "none"
  /\ argument = <<>>
  /\ outcome = NoOutcome

\* initialize_conversation(): runs at every script run until it has succeeded
InitializeConversation ==
  /\ ~initialized
  /\ \E greeting \in Replies :
       LET c1 == add_message(cm, "assistant", greeting) IN
         /\ cm' = c1
         /\ messages' = Append(messages,
              [role |-> "assistant", content |-> greeting,
               timestamp |-> c1.conversation_history[Len(c1.conversation_history)].timestamp])
  /\ initialized' = TRUE
  /\ UNCHANGED current_question

\* the arguments of llm.generate_technical_question at the entry into
\* technical_questions; c is the manager after move_to_next_stage
first_question_call(c) ==
  [question_number |-> 1,
   num_questions |-> c.total_questions_to_ask,
   previous_qa |-> <<>>]

\* the arguments of llm.generate_technical_question in the loop; c is the
\* manager after add_technical_question_answer
next_question_call(c) ==
  [question_number |-> get_current_question_number(c),
   num_questions |-> c.total_questions_to_ask,
   previous_qa |-> c.tech_questions_answers]

\* handle_user_message, the exit-keyword branch
ExitBranch(user_input, exit_message) ==
  LET c1 == add_message(cm, "user", user_input)
      c2 == add_message(c1, "assistant", exit_message)
      c3 == [c2 EXCEPT !.stage = ENDED] IN
    /\ cm' = c3
    /\ messages' = ShowExchange(c3, user_input, exit_message)
    /\ UNCHANGED <<initialized, current_question>>

\* handle_user_message, the technical-question branch
TechnicalBranch(user_input, question, conclusion, drawn) ==
  IF ~Truthy(current_question) THEN UNCHANGED vars
  ELSE
    LET c1 == add_technical_question_answer(cm, current_question, user_input)
        c2 == add_message(c1, "user", user_input) IN
      IF has_more_technical_questions(c2)
        THEN LET c3 == add_message(c2, "assistant", question) IN
          /\ current_question' = question
          /\ cm' = c3
          /\ messages' = ShowExchange(c3, user_input, question)
          /\ UNCHANGED initialized
        ELSE LET c3 == move_to_next_stage(c2, drawn)
                 c4 == add_message(c3, "assistant", conclusion) IN
          /\ cm' = c4
          /\ messages' = ShowExchange(c4, user_input, conclusion)
          /\ current_question' = None
          /\ UNCHANGED initialized

\* handle_user_message, the branch of an input the validator rejects
InvalidBranch(user_input, error_msg) ==
  LET error_response ==
        <<"I'm sorry, but that doesn't seem right. ">> \o error_msg \o <<" Please try again.">>
      c1 == add_message(cm, "user", user_input)
      c2 == add_message(c1, "assistant", error_response) IN
    /\ cm' = c2
    /\ messages' = ShowExchange(c2, user_input, error_response)
    /\ UNCHANGED <<initialized, current_question>>

\* ValidBranch saving the text the user typed instead of processed_value
ValidBranch_StoresRawInput(user_input, processed_value, question, response, drawn) ==
  LET field_name == get_field_name_for_stage(cm.stage)
      c1 == IF field_name # ""
              THEN update_candidate_info(cm, field_name, user_input)
              ELSE cm
      c2 == add_message(c1, "user", user_input)
      c3 == move_to_next_stage(c2, drawn)
      text == IF c3.stage = TECHNICAL_QUESTIONS THEN question ELSE response
      c4 == add_message(c3, "assistant", text) IN
    /\ cm' = c4
    /\ messages' = ShowExchange(c4, user_input, text)
    /\ current_question' = IF c3.stage = TECHNICAL_QUESTIONS THEN question ELSE current_question
    /\ UNCHANGED initialized

\* handle_user_message, the branch of an accepted input
ValidBranch(user_input, processed_value, question, response, drawn) ==
  LET field_name == get_field_name_for_stage(cm.stage)
      c1 == IF field_name # ""
              THEN update_candidate_info(cm, field_name, processed_value)
              ELSE cm
      c2 == add_message(c1, "user", user_input)
      c3 == move_to_next_stage(c2, drawn)
      text == IF c3.stage = TECHNICAL_QUESTIONS THEN question ELSE response
      c4 == add_message(c3, "assistant", text) IN
    /\ cm' = c4
    /\ messages' = ShowExchange(c4, user_input, text)
    /\ current_question' = IF c3.stage = TECHNICAL_QUESTIONS THEN question ELSE current_question
    /\ UNCHANGED initialized

\* handle_user_message without the `if not is_valid` branch
handle_user_message_IgnoresRejection(user_input, question, reply, drawn) ==
  IF check_exit_keyword(user_input) THEN ExitBranch(user_input, reply)
  ELSE IF cm.stage = TECHNICAL_QUESTIONS
    THEN TechnicalBranch(user_input, question, reply, drawn)
  ELSE LET v == validate_and_process_input(cm.stage, user_input) IN
    ValidBranch(user_input, v.processed_value, question, reply, drawn)

\* handle_user_message validating before it looks for an exit keyword
handle_user_message_ValidatesFirst(user_input, question, reply, drawn) ==
  LET v == validate_and_process_input(cm.stage, user_input) IN
    IF cm.stage \in CollectionStages /\ v.is_valid
      THEN ValidBranch(user_input, v.processed_value, question, reply, drawn)
    ELSE IF check_exit_keyword(user_input) THEN ExitBranch(user_input, reply)
    ELSE IF cm.stage = TECHNICAL_QUESTIONS
      THEN TechnicalBranch(user_input, question, reply, drawn)
    ELSE IF ~v.is_valid THEN InvalidBranch(user_input, v.error_msg)
    ELSE ValidBranch(user_input, v.processed_value, question, reply, drawn)

\* handle_user_message recording the technical answer before it looks for an
\* exit keyword
handle_user_message_AnswersFirst(user_input, question, reply, drawn) ==
  IF cm.stage = TECHNICAL_QUESTIONS
    THEN TechnicalBranch(user_input, question, reply, drawn)
  ELSE IF check_exit_keyword(user_input) THEN ExitBranch(user_input, reply)
  ELSE LET v == validate_and_process_input(cm.stage, user_input) IN
    IF ~v.is_valid THEN InvalidBranch(user_input, v.error_msg)
    ELSE ValidBranch(user_input, v.processed_value, question, reply, drawn)

\* question is the text generate_technical_question returns and reply the
\* text any other generation call returns, should the branch make the call;
\* drawn is the value of random.randint, should it prepare the question loop
handle_user_message(user_input, question, reply, drawn) ==
  IF check_exit_keyword(user_input) THEN ExitBranch(user_input, reply)
  ELSE IF cm.stage = TECHNICAL_QUESTIONS
    THEN TechnicalBranch(user_input, question, reply, drawn)
  ELSE LET v == validate_and_process_input(cm.stage, user_input) IN
    IF ~v.is_valid THEN InvalidBranch(user_input, v.error_msg)
    ELSE ValidBranch(user_input, v.processed_value, question, reply, drawn)

\* the chat input shown in every stage
Submit_NoEndedGate(user_input) ==
  /\ initialized
  /\ user_input # <<>>
  /\ Len(cm.conversation_history) < 2 * MaxExchanges
  /\ \E question \in Questions : \E reply \in Replies :
       \E drawn \in MIN_QUESTIONS..MAX_QUESTIONS :
         handle_user_message(user_input, question, reply, drawn)

\* the chat input of the page: shown unless the stage is ended, after the
\* greeting of this script run
Submit(user_input) ==
  /\ initialized
  /\ cm.stage # ENDED
  /\ user_input # <<>>
  /\ Len(cm.conversation_history) < 2 * MaxExchanges
  /\ \E question \in Questions : \E reply \in Replies :
       \E drawn \in MIN_QUESTIONS..MAX_QUESTIONS :
         handle_user_message(user_input, question, reply, drawn)

\* the reset button
Reset ==
  /\ cm' = reset(cm)
  /\ messages' = <<>>
  /\ initialized' = FALSE
  /\ current_question' = None

Next ==
  \/ InitializeConversation /\ UNCHANGED call
  \/ \E user_input \in InputsAt(cm.stage) : Submit(user_input) /\ UNCHANGED call
  \/ Reset /\ UNCHANGED call

Spec == Init /\ [][Next]_<<vars, call>>

(***************************************************************************)
(* The validators called on their own (utils/validators.py): a string is   *)
(* drawn, one validator is applied to it, and the value it accepted and    *)
(* normalized is validated again.                                          *)
(***************************************************************************)
Alphabet == {" ", ",", "a", "5", "7"}

\* every string over Alphabet of length 0..MaxLen
Strings == UNION {[1..n -> Alphabet] : n \in 0..MaxLen}

YearSuffixes ==
  {<<>>, <<" ","y","e","a","r">>, <<" ","y","e","a","r","s">>,
   <<" ","y","r">>, <<" ","y","r","s">>}

\* a number-word of word_to_num alone or followed by year(s)/yr(s)
NumberWordInputs ==
  {word_to_num[i].word \o s : i \in 1..Len(word_to_num), s \in YearSuffixes}

\* inputs of the shapes the validators tell apart that Strings lacks
ShapedInputs ==
  {<<"0">>, <<"5","0">>, <<"5","1">>, <<"0","7">>,
   <<"1"," ","y","e","a","r"," ","2">>, <<"1","y","r","2">>,
   <<"3"," ","Y","e","a","r","s">>, <<"\t","\n">>,
   <<"a","@","B",".","c","o">>,
   <<"+","1"," ","2","3","4"," ","5","6","7"," ","8","9","0","0">>,
   <<"a","l"," "," ","o","'","b">>, <<"p","y"," ",",","g","o">>}

ValidatorInputs == Strings \cup NumberWordInputs \cup ShapedInputs

Validate(field, value) ==
  CASE field = "name" -> validate_name(value)
    [] field = "email" -> validate_email(value)
    [] field = "phone" -> validate_phone(value)
    [] field = "experience" -> validate_experience(value)
    [] field = "position" -> validate_position(value)
    [] field = "location" -> validate_location(value)
    [] field = "tech_stack" -> validate_tech_stack(value)

ValidatorInit ==
  /\ cm = NewManager
  /\ messages = <<>>
  /\ initialized = FALSE
  /\ current_question = None
  /\ validator = "none"
  /\ argument \in ValidatorInputs
  /\ outcome = NoOutcome

\* is_valid, result = validator.validate_<field>(argument)
CallValidator(field) ==
  /\ validator = "none"
  /\ validator' = field
  /\ outcome' = Validate(field, argument)
  /\ UNCHANGED <<argument, vars>>

\* the accepted, normalized value handed to the same validator again
CallAgain ==
  /\ validator # "none"
  /\ outcome.is_valid
  /\ outcome.result # argument
  /\ argument' = outcome.result
  /\ outcome' = Validate(validator, outcome.result)
  /\ UNCHANGED <<validator, vars>>

ValidatorNext ==
  \/ \E field \in Fields : CallValidator(field)
  \/ CallAgain

ValidatorSpec == ValidatorInit /\ [][ValidatorNext]_<<vars, call>>

(***************************************************************************)
(* Vocabulary of the properties.                                           *)
(***************************************************************************)
History == cm.conversation_history

\* the claims' notion of an exit input: an exit keyword occurs in the
\* lower-cased text
HasExitKeyword(u) ==
  \E i \in 1..Len(EXIT_KEYWORDS) : contains(lower(u), EXIT_KEYWORDS[i])

\* the validator the claims attach to each collection stage
ValidatorOf(stage, u) ==
  CASE stage = COLLECT_NAME -> validate_name(u)
    [] stage = COLLECT_EMAIL -> validate_email(u)
    [] stage = COLLECT_PHONE -> validate_phone(u)
    [] stage = COLLECT_EXPERIENCE -> validate_experience(u)
    [] stage = COLLECT_POSITION -> validate_position(u)
    [] stage = COLLECT_LOCATION -> validate_location(u)
    [] stage = COLLECT_TECH_STACK -> validate_tech_stack(u)

\* the field the claims attach to each collection stage
FieldOf(stage) ==
  CASE stage = COLLECT_NAME -> "name"
    [] stage = COLLECT_EMAIL -> "email"
    [] stage = COLLECT_PHONE -> "phone"
    [] stage = COLLECT_EXPERIENCE -> "experience"
    [] stage = COLLECT_POSITION -> "position"
    [] stage = COLLECT_LOCATION -> "location"
    [] stage = COLLECT_TECH_STACK -> "tech_stack"

\* the last text the user submitted and the assistant's answer to it
LastUserInput == History[Len(History) - 1].content
LastReply == History[Len(History)].content

IsRejection(text) ==
  text # <<>> /\ text[1] = "I'm sorry, but that doesn't seem right. "

\* the session ended on an exit keyword
EndedByExit ==
  /\ cm.stage = ENDED
  /\ Len(History) >= 3
  /\ History[Len(History) - 1].role = "user"
  /\ HasExitKeyword(LastUserInput)

(***************************************************************************)
(* C1: in a collection stage, a submission without exit keyword that the   *)
(* stage's validator rejects leaves the stage, every candidate_info field, *)
(* the asked counter, the target count and the (question, answer) list     *)
(* unchanged.  As the step changes none of them, neither does any run of   *)
(* consecutive rejected submissions.                                       *)
(***************************************************************************)
C1_RejectedInputChangesNothing ==
  [][\A u \in InputsAt(cm.stage) :
       ( /\ cm.stage \in CollectionStages
         /\ ~HasExitKeyword(u)
         /\ ~ValidatorOf(cm.stage, u).is_valid
         /\ Submit(u) )
       => /\ cm'.stage = cm.stage
          /\ cm'.candidate_info = cm.candidate_info
          /\ cm'.tech_questions_asked = cm.tech_questions_asked
          /\ cm'.total_questions_to_ask = cm.total_questions_to_ask
          /\ cm'.tech_questions_answers = cm.tech_questions_answers]_vars

\* two rejected submissions in a row at collect_email
C1_Witness ==
  /\ cm.stage = COLLECT_EMAIL
  /\ Len(History) >= 7
  /\ IsRejection(LastReply)
  /\ IsRejection(History[Len(History) - 2].content)
  /\ ~validate_email(LastUserInput).is_valid
  /\ cm.candidate_info["name"] # None
  /\ cm.candidate_info["email"] = None

(***************************************************************************)
(* C2: in every stage but ended, a submission whose lower-cased text holds *)
(* an exit keyword sets the stage to ended in that step, and the step is   *)
(* the exit branch alone: the log gains the input and one generated exit   *)
(* message, no validator reason is relayed, the asked counter and the      *)
(* pending question stay as they were.                                     *)
(***************************************************************************)
C2_ExitKeywordEndsAtOnce ==
  [][\A u \in InputsAt(cm.stage) :
       (HasExitKeyword(u) /\ Submit(u))
       => /\ cm'.stage = ENDED
          /\ Len(cm'.conversation_history) = Len(History) + 2
          /\ cm'.conversation_history[Len(History) + 1].content = u
          /\ cm'.conversation_history[Len(History) + 2].content \in Replies
          /\ cm'.tech_questions_asked = cm.tech_questions_asked
          /\ current_question' = current_question]_vars

\* an exit keyword submitted as the answer to the first technical question
C2_Witness ==
  /\ EndedByExit
  /\ is_info_complete(cm)
  /\ cm.tech_questions_asked = 0
  /\ cm.total_questions_to_ask >= MIN_QUESTIONS
  /\ Truthy(current_question)

(***************************************************************************)
(* C3: a submission holding an exit keyword stores nothing: every          *)
(* candidate_info field keeps its value, also when the stage's validator   *)
(* would accept the input, and no (question, answer) pair is appended.     *)
(***************************************************************************)
C3_ExitStoresNothing ==
  [][\A u \in InputsAt(cm.stage) :
       (HasExitKeyword(u) /\ Submit(u))
       => /\ cm'.candidate_info = cm.candidate_info
          /\ cm'.tech_questions_answers = cm.tech_questions_answers]_vars

\* the session ended at collect_position on an input validate_position accepts
C3_Witness ==
  /\ EndedByExit
  /\ cm.candidate_info["experience"] # None
  /\ cm.candidate_info["position"] = None
  /\ validate_position(LastUserInput).is_valid

(***************************************************************************)
(* C4, as claimed: an exit keyword submitted in technical_questions        *)
(* discards the loop state, leaving the pair list, the asked counter, the  *)
(* target count and the pending question at their start values.            *)
(***************************************************************************)
C4_ExitDiscardsLoop ==
  [][\A u \in InputsAt(cm.stage) :
       (cm.stage = TECHNICAL_QUESTIONS /\ HasExitKeyword(u) /\ Submit(u))
       => /\ cm'.tech_questions_answers = <<>>
          /\ cm'.tech_questions_asked = 0
          /\ cm'.total_questions_to_ask = 0
          /\ current_question' = None]_vars

(***************************************************************************)
(* C4, amended: an exit keyword submitted in technical_questions ends the  *)
(* session and keeps the loop state: the pair list, the asked counter, the *)
(* target count and the pending question have the values they had before   *)
(* the step.                                                               *)
(***************************************************************************)
C4_ExitKeepsLoop ==
  [][\A u \in InputsAt(cm.stage) :
       (cm.stage = TECHNICAL_QUESTIONS /\ HasExitKeyword(u) /\ Submit(u))
       => /\ cm'.stage = ENDED
          /\ cm'.tech_questions_answers = cm.tech_questions_answers
          /\ cm'.tech_questions_asked = cm.tech_questions_asked
          /\ cm'.total_questions_to_ask = cm.total_questions_to_ask
          /\ current_question' = current_question]_vars

\* the session ended on an exit keyword in the middle of the loop
C4_Witness ==
  /\ EndedByExit
  /\ cm.tech_questions_asked >= 1
  /\ cm.tech_questions_asked < cm.total_questions_to_ask
  /\ Len(cm.tech_questions_answers) = cm.tech_questions_asked
  /\ Truthy(current_question)

(***************************************************************************)
(* C5, as claimed: for every tech_stack value the validator accepts, the   *)
(* loop runs with a target count T in 3..5 and the stage becomes           *)
(* conclusion with exactly T recorded pairs.                               *)
(***************************************************************************)
C5_ConclusionAfterExactlyT ==
  cm.stage = CONCLUSION
    => /\ cm.total_questions_to_ask \in MIN_QUESTIONS..MAX_QUESTIONS
       /\ Len(cm.tech_questions_answers) = cm.total_questions_to_ask

(***************************************************************************)
(* C6, as claimed: in technical_questions a submission that is empty after *)
(* trimming, with no exit keyword, appends no pair, leaves the asked       *)
(* counter alone and does not advance the stage.                           *)
(***************************************************************************)
C6_BlankAnswerRejected ==
  [][\A u \in InputsAt(cm.stage) :
       ( /\ cm.stage = TECHNICAL_QUESTIONS
         /\ ~HasExitKeyword(u)
         /\ strip(u) = <<>>
         /\ Submit(u) )
       => /\ cm'.tech_questions_answers = cm.tech_questions_answers
          /\ cm'.tech_questions_asked = cm.tech_questions_asked
          /\ cm'.stage = cm.stage]_vars

(***************************************************************************)
(* C7: in a collection stage, a submission without exit keyword that the   *)
(* stage's validator accepts stores the validator's normalized value under *)
(* the stage's field, leaves the six other fields unchanged and advances   *)
(* the stage to the next entry of the fixed sequence.                      *)
(***************************************************************************)
C7_AcceptedInputStoresNormalized ==
  [][\A u \in InputsAt(cm.stage) :
       ( /\ cm.stage \in CollectionStages
         /\ ~HasExitKeyword(u)
         /\ ValidatorOf(cm.stage, u).is_valid
         /\ Submit(u) )
       => /\ cm'.candidate_info =
               [cm.candidate_info EXCEPT ![FieldOf(cm.stage)] = ValidatorOf(cm.stage, u).result]
          /\ \E i \in 1..(Len(STAGE_SEQUENCE) - 1) :
               cm.stage = STAGE_SEQUENCE[i] /\ cm'.stage = STAGE_SEQUENCE[i + 1]]_vars

\* the name was just stored, and it is not the text the user typed
C7_Witness ==
  /\ cm.stage = COLLECT_EMAIL
  /\ Len(History) >= 5
  /\ ~IsRejection(LastReply)
  /\ validate_name(LastUserInput).is_valid
  /\ cm.candidate_info["name"] = validate_name(LastUserInput).result
  /\ cm.candidate_info["name"] # LastUserInput

(***************************************************************************)
(* C8, as claimed: a field is populated exactly when its collection stage  *)
(* accepted a submission; so in technical_questions and in conclusion all  *)
(* seven fields hold a non-empty value.                                    *)
(***************************************************************************)
C8_AllFieldsPopulatedAfterCollection ==
  cm.stage \in {TECHNICAL_QUESTIONS, CONCLUSION}
    => \A f \in Fields : cm.candidate_info[f] # None /\ cm.candidate_info[f] # <<>>

(***************************************************************************)
(* C9: fields are write-once: a step other than reset never changes a      *)
(* field that already holds a value.                                       *)
(***************************************************************************)
C9_FieldsWriteOnce ==
  [][Reset \/ \A f \in Fields :
       cm.candidate_info[f] # None => cm'.candidate_info[f] = cm.candidate_info[f]]_vars

\* the name stored at the second submission is still there in conclusion
C9_Witness ==
  /\ cm.stage = CONCLUSION
  /\ cm.candidate_info["name"] = <<"A","l"," ","O","'","B">>
  /\ cm.candidate_info["tech_stack"] # None

(***************************************************************************)
(* C10: an accepted submission in a collection stage raises the step of    *)
(* get_progress() by exactly 1.                                            *)
(***************************************************************************)
C10_ProgressStepsByOne ==
  [][\A u \in InputsAt(cm.stage) :
       ( /\ cm.stage \in CollectionStages
         /\ ~HasExitKeyword(u)
         /\ ValidatorOf(cm.stage, u).is_valid
         /\ Submit(u) )
       => get_progress(cm')[1] = get_progress(cm)[1] + 1]_vars

\* the phone number was just accepted: step 4 of 10
C10_Witness ==
  /\ cm.stage = COLLECT_EXPERIENCE
  /\ get_progress(cm) = <<4, 10>>
  /\ cm.candidate_info["phone"] # None
  /\ ~IsRejection(LastReply)

(***************************************************************************)
(* C11: the step of get_progress() never decreases from one state to the   *)
(* next, whatever is submitted; only the reset lowers it.                  *)
(***************************************************************************)
C11_ProgressNeverDecreases ==
  [][Reset \/ get_progress(cm')[1] >= get_progress(cm)[1]]_vars

\* an exit keyword at collect_email took the step from 2 to 10
C11_Witness ==
  /\ EndedByExit
  /\ get_progress(cm) = <<10, 10>>
  /\ cm.candidate_info["name"] # None
  /\ cm.candidate_info["email"] = None

(***************************************************************************)
(* C12: ended is terminal: once the stage is ended no submission is taken, *)
(* so the stage, the candidate record, the loop state and the conversation *)
(* log stay as they are until the reset.  Ended is reached by an exit      *)
(* keyword (C2) and by completing the sequence (the witness).              *)
(***************************************************************************)
C12_EndedIsTerminal ==
  [][cm.stage = ENDED => (Reset \/ (cm' = cm /\ current_question' = current_question))]_vars

\* the session ended by completing the sequence: the last submission, made in
\* conclusion, holds no exit keyword
C12_Witness ==
  /\ cm.stage = ENDED
  /\ Len(History) >= 3
  /\ ~HasExitKeyword(LastUserInput)
  /\ cm.tech_questions_asked = cm.total_questions_to_ask
  /\ cm.total_questions_to_ask >= MIN_QUESTIONS

(***************************************************************************)
(* C13: from a non-terminal stage, valid submissions without exit keyword  *)
(* bring the stage to conclusion after finitely many submissions, whatever *)
(* the generated questions are.  Stated on finite runs: while the stage is *)
(* technical_questions, a non-blank answer without exit keyword is taken,  *)
(* that is, submitting it changes the state (it records a pair or moves to *)
(* conclusion); where it changes nothing, no number of such submissions    *)
(* reaches conclusion.                                                     *)
(***************************************************************************)
C13_ValidAnswerIsTaken ==
  (/\ initialized
   /\ cm.stage = TECHNICAL_QUESTIONS
   /\ Len(History) < 2 * MaxExchanges)
    => \A u \in InputsAt(TECHNICAL_QUESTIONS) :
         (~HasExitKeyword(u) /\ strip(u) # <<>>) => ENABLED <<Submit(u)>>_vars

(***************************************************************************)
(* C14: every step that enters technical_questions initializes the loop:   *)
(* the target count lies in MIN_QUESTIONS..MAX_QUESTIONS, the asked        *)
(* counter is 0 and the pair list is empty.                                *)
(***************************************************************************)
C14_EntryInitializesLoop ==
  [][(cm.stage # TECHNICAL_QUESTIONS /\ cm'.stage = TECHNICAL_QUESTIONS)
       => /\ cm'.total_questions_to_ask \in MIN_QUESTIONS..MAX_QUESTIONS
          /\ cm'.tech_questions_asked = 0
          /\ cm'.tech_questions_answers = <<>>]_vars

(***************************************************************************)
(* C15: the target count is fixed once drawn: once it is drawn, and from   *)
(* the entry into technical_questions on, no step but the reset changes    *)
(* total_questions_to_ask, so it is drawn at most once between resets.     *)
(***************************************************************************)
C15_TargetFixedOnceDrawn ==
  [][Reset \/
     ((cm.total_questions_to_ask # 0
         \/ cm.stage \in {TECHNICAL_QUESTIONS, CONCLUSION, ENDED})
        => cm'.total_questions_to_ask = cm.total_questions_to_ask)]_vars

\* a loop of four questions was answered and the stage moved on to conclusion
C15_Witness ==
  /\ cm.stage = CONCLUSION
  /\ cm.total_questions_to_ask = 4
  /\ Len(cm.tech_questions_answers) = 4

(***************************************************************************)
(* C16: the reset yields the state of a freshly constructed session: stage *)
(* greeting, all seven fields empty, asked counter 0, target count 0, no   *)
(* pairs, empty conversation log, empty transcript, no pending question.   *)
(* The reset steps are the steps that take the greeting flag back.         *)
(***************************************************************************)
C16_Fresh ==
  /\ cm.stage = "greeting"
  /\ DOMAIN cm.candidate_info =
       {"name", "email", "phone", "experience", "position", "location", "tech_stack"}
  /\ \A f \in DOMAIN cm.candidate_info : cm.candidate_info[f] = None
  /\ cm.tech_questions_asked = 0
  /\ cm.total_questions_to_ask = 0
  /\ cm.tech_questions_answers = <<>>
  /\ cm.conversation_history = <<>>
  /\ messages = <<>>
  /\ current_question = None

C16_ResetIsFresh ==
  [][(initialized /\ ~initialized') => C16_Fresh']_vars

\* mid-loop, with every entity non-empty, the reset is about to act and what
\* it yields is the fresh state
C16_Witness ==
  /\ cm.stage = TECHNICAL_QUESTIONS
  /\ cm.tech_questions_asked >= 1
  /\ cm.total_questions_to_ask >= MIN_QUESTIONS
  /\ \A f \in Fields : Truthy(cm.candidate_info[f])
  /\ messages # <<>>
  /\ Truthy(current_question)
  /\ ENABLED (Reset /\ C16_Fresh')

(***************************************************************************)
(* C17: when the stage is conclusion or ended, a submission changes no     *)
(* candidate_info field and none of the asked counter, the target count    *)
(* and the pair list: every step but the reset taken from these stages     *)
(* leaves them as they are.                                                *)
(***************************************************************************)
C17_LateSubmissionMutatesNothing ==
  [][cm.stage \in {CONCLUSION, ENDED}
       => \/ Reset
          \/ /\ cm'.candidate_info = cm.candidate_info
             /\ cm'.tech_questions_asked = cm.tech_questions_asked
             /\ cm'.total_questions_to_ask = cm.total_questions_to_ask
             /\ cm'.tech_questions_answers = cm.tech_questions_answers]_vars

\* "goodbye" was submitted in conclusion, after a complete loop: the record
\* and the loop are as the loop left them
C17_Witness ==
  /\ EndedByExit
  /\ History[Len(History) - 2].role = "assistant"
  /\ cm.total_questions_to_ask >= MIN_QUESTIONS
  /\ cm.tech_questions_asked = cm.total_questions_to_ask
  /\ Len(cm.tech_questions_answers) = cm.total_questions_to_ask
  /\ \A f \in Fields : Truthy(cm.candidate_info[f])

(***************************************************************************)
(* C18: the conversation log is append-only: every step but the reset      *)
(* keeps the existing entries of conversation_history, in their positions, *)
(* and only adds entries at the end.                                       *)
(***************************************************************************)
C18_LogAppendOnly ==
  [][Reset \/
     /\ Len(cm'.conversation_history) >= Len(cm.conversation_history)
     /\ SubSeq(cm'.conversation_history, 1, Len(cm.conversation_history))
          = cm.conversation_history]_vars

\* nine entries in the order they were added, the greeting first
C18_Witness ==
  /\ Len(History) >= 9
  /\ History[1].role = "assistant"
  /\ \A i \in 1..Len(History) : History[i].timestamp = i

(***************************************************************************)
(* C19: at every reachable state the asked counter equals the length of    *)
(* the (question, answer) pair list.                                       *)
(***************************************************************************)
C19_AskedEqualsPairs ==
  cm.tech_questions_asked = Len(cm.tech_questions_answers)

\* two answers recorded, mid-loop
C19_Witness ==
  /\ cm.stage = TECHNICAL_QUESTIONS
  /\ cm.tech_questions_asked = 2
  /\ Len(cm.tech_questions_answers) = 2
  /\ cm.total_questions_to_ask > 2

(***************************************************************************)
(* C20: get_progress() returns (step, total) with step the zero-based      *)
(* index of the current stage in the sequence of 11 stages and total 10,   *)
(* for every stage.  It is a function of the manager: it changes no state. *)
(***************************************************************************)
C20_StageNumber(stage) ==
  CASE stage = "greeting" -> 0
    [] stage = "collect_name" -> 1
    [] stage = "collect_email" -> 2
    [] stage = "collect_phone" -> 3
    [] stage = "collect_experience" -> 4
    [] stage = "collect_position" -> 5
    [] stage = "collect_location" -> 6
    [] stage = "collect_tech_stack" -> 7
    [] stage = "technical_questions" -> 8
    [] stage = "conclusion" -> 9
    [] stage = "ended" -> 10

C20_ProgressIsStageIndex ==
  get_progress(cm) = <<C20_StageNumber(cm.stage), 10>>

C20_Witness ==
  /\ cm.stage = TECHNICAL_QUESTIONS
  /\ Truthy(current_question)
  /\ get_progress(cm) = <<8, 10>>

(***************************************************************************)
(* Vocabulary of the validator claims.                                     *)
(***************************************************************************)
Called == validator # "none"

IsBlank(s) == \A i \in 1..Len(s) : s[i] \in {" ", "\t", "\n"}

DecimalDigits == {"0", "1", "2", "3", "4", "5", "6", "7", "8", "9"}

HasDigit(s) == \E i \in 1..Len(s) : s[i] \in DecimalDigits

\* the decimal strings of the integers 0..50
Decimals0To50 ==
  {<<d>> : d \in DecimalDigits}
    \cup {<<t, d>> : t \in {"1", "2", "3", "4"}, d \in DecimalDigits}
    \cup {<<"5", "0">>}

(***************************************************************************)
(* C21: each of the seven validators rejects every input that is empty or  *)
(* holds only whitespace, and returns a non-empty reason with it.          *)
(***************************************************************************)
C21_BlankIsRejected ==
  (Called /\ IsBlank(argument))
    => /\ ~outcome.is_valid
       /\ outcome.result # None
       /\ outcome.result # <<>>
       /\ \A i \in 1..Len(outcome.result) : outcome.result[i] # ""

\* a tab and a newline were rejected as a tech stack
C21_Witness ==
  /\ validator = "tech_stack"
  /\ argument = <<"\t", "\n">>
  /\ ~outcome.is_valid
  /\ outcome.result = <<"Tech stack must be at least 2 characters long.">>

(***************************************************************************)
(* C22: validate_experience accepts every number-word of the fixed set,    *)
(* alone or followed by year(s)/yr(s), and normalizes it to the decimal    *)
(* string of the word's value.                                             *)
(***************************************************************************)
C22_NumberWordGivesItsValue ==
  \A i \in 1..Len(word_to_num) : \A s \in YearSuffixes :
    (validator = "experience" /\ argument = word_to_num[i].word \o s)
      => outcome = [is_valid |-> TRUE, result |-> str(word_to_num[i].num)]

(***************************************************************************)
(* C23: when the input of validate_experience holds a digit, the integer   *)
(* resolved is the value of the first maximal digit sequence of the input: *)
(* the input is accepted exactly when that value is at most 50, and the    *)
(* normalized value is its decimal string.                                 *)
(***************************************************************************)
C23_FirstDigitSequenceDecides ==
  (validator = "experience" /\ HasDigit(argument))
    => LET n == int(first_number(argument)) IN
         IF n <= 50 THEN outcome = [is_valid |-> TRUE, result |-> str(n)]
                    ELSE ~outcome.is_valid

(***************************************************************************)
(* C24: validate_experience accepts only an integer in 0..50: an accepted  *)
(* value is the decimal string of an integer between 0 and 50, and an      *)
(* input that is a decimal number is accepted exactly when it is one of    *)
(* these.                                                                  *)
(***************************************************************************)
C24_ExperienceInRange ==
  validator = "experience"
    => /\ outcome.is_valid => outcome.result \in Decimals0To50
       /\ (/\ argument # <<>>
           /\ \A i \in 1..Len(argument) : argument[i] \in DecimalDigits
           /\ (Len(argument) = 1 \/ argument[1] # "0"))
            => (outcome.is_valid <=> argument \in Decimals0To50)

\* the upper end: "50" was accepted
C24_Witness ==
  /\ validator = "experience"
  /\ argument = <<"5", "0">>
  /\ outcome = [is_valid |-> TRUE, result |-> <<"5", "0">>]

(***************************************************************************)
(* C25: whenever validate_tech_stack accepts, the normalized value is      *)
(* non-empty and names at least one technology.                            *)
(***************************************************************************)
C25_AcceptedStackNamesATechnology ==
  (validator = "tech_stack" /\ outcome.is_valid)
    => /\ outcome.result # <<>>
       /\ \E i \in 1..Len(split_on(outcome.result, ",")) :
            ~IsBlank(split_on(outcome.result, ",")[i])

(***************************************************************************)
(* C29: normalization is a fixed point of validation: for the name,        *)
(* experience, position, location and tech_stack validators, a value v     *)
(* the validator returned as accepted is accepted again and returned as    *)
(* it is, (True, v).                                                       *)
(***************************************************************************)
C29_NormalizedIsFixedPoint ==
  [][(/\ validator \in {"name", "experience", "position", "location", "tech_stack"}
      /\ validator' = validator
      /\ outcome.is_valid
      /\ argument' = outcome.result)
       => outcome' = [is_valid |-> TRUE, result |-> outcome.result]]_call

(***************************************************************************)
(* C26: every call that asks for a technical question passes a             *)
(* question_number equal to the number of recorded pairs plus one, with    *)
(* 1 <= question_number <= num_questions, num_questions being the target   *)
(* count.  The calls are made by the step that enters technical_questions  *)
(* and by every step that records an answer and stays in the loop.         *)
(***************************************************************************)
C26_CallInRange(c, args) ==
  /\ args.question_number = Len(c.tech_questions_answers) + 1
  /\ args.num_questions = c.total_questions_to_ask
  /\ 1 <= args.question_number
  /\ args.question_number <= args.num_questions

C26_QuestionNumberInRange ==
  [][/\ (cm.stage = COLLECT_TECH_STACK /\ cm'.stage = TECHNICAL_QUESTIONS)
          => C26_CallInRange(cm', first_question_call(cm'))
     /\ (/\ cm.stage = TECHNICAL_QUESTIONS
         /\ cm'.stage = TECHNICAL_QUESTIONS
         /\ Len(cm'.tech_questions_answers) = Len(cm.tech_questions_answers) + 1)
          => C26_CallInRange(cm', next_question_call(cm'))]_vars

(***************************************************************************)
(* C27: at stage greeting a submission without exit keyword is accepted    *)
(* without validation: the step stores no candidate_info field, answers    *)
(* with no rejection and moves the stage to collect_name, so the first     *)
(* message of a session is never recorded as the name.                     *)
(***************************************************************************)
C27_GreetingInputOnlyAdvances ==
  [][(/\ cm.stage = GREETING
      /\ Len(cm'.conversation_history) = Len(cm.conversation_history) + 2
      /\ ~HasExitKeyword(cm'.conversation_history[Len(cm.conversation_history) + 1].content))
       => /\ cm'.stage = COLLECT_NAME
          /\ \A f \in Fields : cm'.candidate_info[f] = None
          /\ ~IsRejection(cm'.conversation_history[Len(cm.conversation_history) + 2].content)]_vars

\* "hi", which the email, phone and experience validators reject, was
\* submitted at greeting
C27_Witness ==
  /\ cm.stage = COLLECT_NAME
  /\ Len(History) = 3
  /\ History[2] = [role |-> "user", content |-> <<"h", "i">>, timestamp |-> 2]
  /\ cm.candidate_info["name"] = None

(***************************************************************************)
(* C28: no input whose lower-cased text contains an exit keyword, also     *)
(* inside a longer word, populates a candidate_info field or is recorded   *)
(* as the answer of a (question, answer) pair: a step that writes a field  *)
(* or records a pair was made with an input free of exit keywords.         *)
(***************************************************************************)
C28_ExitInputNeverStored ==
  [][(\/ \E f \in Fields : /\ cm'.candidate_info[f] # cm.candidate_info[f]
                             /\ cm'.candidate_info[f] # None
      \/ Len(cm'.tech_questions_answers) > Len(cm.tech_questions_answers))
       => /\ Len(cm'.conversation_history) = Len(cm.conversation_history) + 2
          /\ ~HasExitKeyword(cm'.conversation_history[Len(cm.conversation_history) + 1].content)]_vars

\* "backend" was submitted as the position: the session ended and the field
\* stayed empty
C28_Witness ==
  /\ EndedByExit
  /\ LastUserInput = <<"b", "a", "c", "k", "e", "n", "d">>
  /\ cm.candidate_info["experience"] # None
  /\ cm.candidate_info["position"] = None

(***************************************************************************)
(* C30: after every operation the displayed transcript is the same         *)
(* sequence of (role, content, timestamp) entries as the manager's         *)
(* conversation log.                                                       *)
(***************************************************************************)
C30_TranscriptEqualsLog ==
  messages = cm.conversation_history

\* a greeting, an accepted exchange and a rejected one, shown as logged
C30_Witness ==
  /\ Len(messages) = 5
  /\ IsRejection(messages[5].content)
  /\ \A i \in 1..5 : messages[i] = History[i]

====
